---- MODULE Spec2Model ----
(***************************************************************************)
(* Model of backend/src/utils/mfa/verifyTotpOrSecretKey.ts: the HOTP       *)
(* generator (RFC 4226), the TOTP generator and the two verification entry *)
(* points verifyTotp and verifySecretKey.                                  *)
(*                                                                         *)
(* Strings are sequences of code points.  Buffers are sequences of bytes.  *)
(* A JavaScript number holding a counter is kept as four 16-bit limbs,     *)
(* most significant first (two's complement for a negative number), so     *)
(* that values at and above 2^31 can be written down.                      *)
(***************************************************************************)
EXTENDS Integers, Sequences, FiniteSets, TLC

VARIABLES
    now,            \* the wall clock, in milliseconds (what Date.now() returns)
    pc,             \* position of the call in progress
    op,             \* "none", "totp" or "raw": which entry point is running
    userIn,         \* userTotp / userSecretKey
    dbIn,           \* dbSecretKey
    hmac,           \* createHmac as the call in progress meets it: <<key, message>> -> digest
    startNow,       \* the clock when the call was entered
    currentCounter, \* verifyTotp's local currentCounter
    result,         \* "pending", "continue", "true", "false" or "rejected"
    tseCalls,       \* the argument pairs timingSafeEqual was invoked on
    clockReads,     \* how many times the call read the clock
    generated,      \* the counters generateTotp was invoked with
    hotpCounter,    \* generateHotp's counter argument
    hotpDigest,     \* what hmac.digest() returned
    hotpBuffer,     \* the 8-byte message fed to the HMAC
    hotpCode        \* generateHotp's return value

vars == <<now, pc, op, userIn, dbIn, hmac, startNow, currentCounter, result,
          tseCalls, clockReads, generated,
          hotpCounter, hotpDigest, hotpBuffer, hotpCode>>

callVars == <<op, userIn, dbIn, hmac, startNow, currentCounter, result,
              tseCalls, clockReads, generated>>

hotpVars == <<hotpCounter, hotpDigest, hotpBuffer, hotpCode>>

(***************************************************************************)
(* Configuration and platform constants                                    *)
(***************************************************************************)

\* AUTH_APP_PARAMS.totp_length
totp_length == 6

\* AUTH_APP_PARAMS.totp_period, a duration in seconds
totp_period == 30

\* a window of two steps either side
windowTwo == 1 + 1

\* const window = 1
window == 1

\* Date.now() counts milliseconds
MsPerSecond == 1000

\* length of a SHA-256 digest in bytes
DigestLen == 32

(***************************************************************************)
(* Bounds of the model                                                     *)
(***************************************************************************)

\* the clock advances in steps of TickMs milliseconds, at most MaxTick times
TickMs == 15

MaxTick == 3

\* longest encoded server secret handed to verifyTotp
MaxSecretLen == 2

\* longest base64 string handed to verifySecretKey
MaxRawLen == 3

MaxCounter == (MaxTick * TickMs) \div totp_period

(***************************************************************************)
(* Sequences                                                               *)
(***************************************************************************)

SeqsUpTo(S, n) == UNION {[1..k -> S] : k \in 0..n}

RECURSIVE Flatten(_)
Flatten(ss) == IF ss = <<>> THEN <<>> ELSE Head(ss) \o Flatten(Tail(ss))

(***************************************************************************)
(* JavaScript numbers and 32-bit integer operators                         *)
(***************************************************************************)

Limb == 256 * 256

\* the JavaScript number n (a small integer) as limbs
NumberOf(n) ==
    IF n >= 0 THEN <<0, 0, n \div Limb, n % Limb>>
    ELSE <<Limb - 1, Limb - 1, (n \div Limb) % Limb, n % Limb>>

\* ToInt32: the low 32 bits of the number, read as a signed integer
ToInt32(counter) ==
    IF counter[3] >= Limb \div 2
    THEN (counter[3] - Limb) * Limb + counter[4]
    ELSE counter[3] * Limb + counter[4]

(***************************************************************************)
(* generateHotp                                                            *)
(***************************************************************************)

\* for (i = 0; i < 8; i++) { buffer[7 - i] = counter & 0xff; counter = counter >> 8 }
RECURSIVE FillBuffer(_, _, _)
FillBuffer(buffer, c, i) ==
    IF i = 8 THEN buffer
    ELSE FillBuffer([buffer EXCEPT ![8 - i] = c % 256], c \div 256, i + 1)

CounterBuffer(counter) == FillBuffer([k \in 1..8 |-> 0], ToInt32(counter), 0)

\* hmacResult[i], JavaScript index i; a read past the end is undefined, and
\* undefined & 0xff is 0
ByteAt(hmacResult, i) ==
    IF i + 1 \in DOMAIN hmacResult THEN hmacResult[i + 1] ELSE 0

DynamicTruncate(hmacResult) ==
    LET offset == ByteAt(hmacResult, Len(hmacResult) - 1) % 16
    IN  (ByteAt(hmacResult, offset) % 128) * 16777216
        + (ByteAt(hmacResult, offset + 1) % 256) * 65536
        + (ByteAt(hmacResult, offset + 2) % 256) * 256
        + (ByteAt(hmacResult, offset + 3) % 256)

RECURSIVE Pow10(_)
Pow10(k) == IF k = 0 THEN 1 ELSE 10 * Pow10(k - 1)

\* `${n}` for a non-negative integer n
RECURSIVE DecimalString(_)
DecimalString(n) ==
    IF n < 10 THEN <<48 + n>>
    ELSE Append(DecimalString(n \div 10), 48 + (n % 10))

\* the code string left as rendered, without padding
PadStartNone(s, len, ch) == s

RECURSIVE PadStart(_, _, _)
PadStart(s, len, ch) ==
    IF Len(s) >= len THEN s ELSE PadStart(<<ch>> \o s, len, ch)

HotpCode(hmacResult) ==
    PadStart(DecimalString(DynamicTruncate(hmacResult) % Pow10(totp_length)),
             totp_length, 48)

\* createHmac(alg, key).update(buffer).digest()
HmacDigest(hm, key, buffer) == hm[<<key, buffer>>]

generateHotp(hm, secretKeyBuffer, counter) ==
    HotpCode(HmacDigest(hm, secretKeyBuffer, CounterBuffer(counter)))

(***************************************************************************)
(* Decoders and buffers                                                    *)
(***************************************************************************)

\* the w-bit value v, most significant bit first
RECURSIVE BitsOf(_, _)
BitsOf(v, w) == IF w = 0 THEN <<>> ELSE Append(BitsOf(v \div 2, w - 1), v % 2)

RECURSIVE BitsValue(_)
BitsValue(bits) ==
    IF bits = <<>> THEN 0
    ELSE 2 * BitsValue(SubSeq(bits, 1, Len(bits) - 1)) + bits[Len(bits)]

\* whole bytes of a bit string; trailing bits that fill no byte are dropped
BytesOfBits(bits) ==
    [j \in 1..(Len(bits) \div 8) |-> BitsValue(SubSeq(bits, 8 * (j - 1) + 1, 8 * j))]

\* RFC 4648 base32 alphabet: A-Z, 2-7
Base32Value(cp) ==
    IF cp \in 65..90 THEN cp - 65
    ELSE IF cp \in 50..55 THEN cp - 24
    ELSE -1

\* customBase32Decode: a byte sequence, or a decode error on an invalid character
customBase32Decode(text) ==
    IF \E i \in DOMAIN text : Base32Value(text[i]) < 0
    THEN [ok |-> FALSE, bytes |-> <<>>]
    ELSE [ok |-> TRUE,
          bytes |-> BytesOfBits(Flatten([i \in DOMAIN text |->
                                            BitsOf(Base32Value(text[i]), 5)]))]

\* base64 and base64url alphabets, as Buffer.from(s, "base64") reads them
Base64Value(cp) ==
    IF cp \in 65..90 THEN cp - 65
    ELSE IF cp \in 97..122 THEN cp - 71
    ELSE IF cp \in 48..57 THEN cp + 4
    ELSE IF cp \in {43, 45} THEN 62
    ELSE IF cp \in {47, 95} THEN 63
    ELSE -1

PadChar == 61

\* the part of s before the first '='
RECURSIVE UntilPad(_)
UntilPad(s) ==
    IF s = <<>> \/ Head(s) = PadChar THEN <<>>
    ELSE <<Head(s)>> \o UntilPad(Tail(s))

IsBase64Char(cp) == Base64Value(cp) >= 0

\* Buffer.from(s, "base64"): never throws; characters outside the alphabet are
\* skipped and decoding stops at the first '='
BufferFromBase64(s) ==
    LET legal == SelectSeq(UntilPad(s), IsBase64Char)
    IN  BytesOfBits(Flatten([i \in DOMAIN legal |-> BitsOf(Base64Value(legal[i]), 6)]))

\* UTF-8 encoding of one code point below 2048
Utf8(cp) ==
    IF cp < 128 THEN <<cp>> ELSE <<192 + (cp \div 64), 128 + (cp % 64)>>

\* Buffer.from(s): the UTF-8 bytes of s
BufferFrom(s) == Flatten([i \in DOMAIN s |-> Utf8(s[i])])

\* crypto.timingSafeEqual on two buffers of equal length
TimingSafeEqual(a, b) == a = b

(***************************************************************************)
(* generateTotp and the bodies of the two entry points                     *)
(***************************************************************************)

generateTotp(hm, dbSecretKey, counter) ==
    LET secretKeyBuffer == customBase32Decode(dbSecretKey)
    IN  IF secretKeyBuffer.ok
        THEN [ok |-> TRUE,
              code |-> generateHotp(hm, secretKeyBuffer.bytes, NumberOf(counter))]
        ELSE [ok |-> FALSE, code |-> <<>>]

\* verifyTotp up to the comparison with the current code
CheckCurrent(hm, userTotp, dbSecretKey, counter) ==
    LET serverTotpCurr == generateTotp(hm, dbSecretKey, counter)
        userTotpBuffer == BufferFrom(userTotp)
        serverTotpBuffer == BufferFrom(serverTotpCurr.code)
    IN  IF ~serverTotpCurr.ok
        THEN [outcome |-> "rejected", tse |-> {}, gen |-> {counter}]
        ELSE IF Len(userTotpBuffer) # Len(serverTotpBuffer)
        THEN [outcome |-> "false", tse |-> {}, gen |-> {counter}]
        ELSE IF TimingSafeEqual(userTotpBuffer, serverTotpBuffer)
        THEN [outcome |-> "true",
              tse |-> {<<userTotpBuffer, serverTotpBuffer>>}, gen |-> {counter}]
        ELSE [outcome |-> "continue",
              tse |-> {<<userTotpBuffer, serverTotpBuffer>>}, gen |-> {counter}]

\* the comparison of one candidate inside the loop: the length test guards
\* timingSafeEqual
Candidate(userTotpBuffer, serverBuffer) ==
    IF Len(userTotpBuffer) = Len(serverBuffer)
    THEN [match |-> TimingSafeEqual(userTotpBuffer, serverBuffer),
          tse |-> {<<userTotpBuffer, serverBuffer>>}]
    ELSE [match |-> FALSE, tse |-> {}]

\* the loop with the comparison against the next code left out
RECURSIVE WindowLoopPrevOnly(_, _, _, _, _)
WindowLoopPrevOnly(hm, userTotp, dbSecretKey, counter, errorWindow) ==
    IF errorWindow > window
    THEN [outcome |-> "false", tse |-> {}, gen |-> {}]
    ELSE
      LET serverTotpPrev == generateTotp(hm, dbSecretKey, counter - errorWindow)
          prev == Candidate(BufferFrom(userTotp), BufferFrom(serverTotpPrev.code))
          gen == {counter - errorWindow}
      IN  IF ~serverTotpPrev.ok
          THEN [outcome |-> "rejected", tse |-> {}, gen |-> gen]
          ELSE IF prev.match
          THEN [outcome |-> "true", tse |-> prev.tse, gen |-> gen]
          ELSE
            LET rest == WindowLoopPrevOnly(hm, userTotp, dbSecretKey, counter,
                                           errorWindow + 1)
            IN  [outcome |-> rest.outcome,
                 tse |-> prev.tse \cup rest.tse,
                 gen |-> gen \cup rest.gen]

\* for (errorWindow = 1; errorWindow <= window; errorWindow++) { ... } return false
RECURSIVE WindowLoop(_, _, _, _, _)
WindowLoop(hm, userTotp, dbSecretKey, counter, errorWindow) ==
    IF errorWindow > window
    THEN [outcome |-> "false", tse |-> {}, gen |-> {}]
    ELSE
      LET serverTotpPrev == generateTotp(hm, dbSecretKey, counter - errorWindow)
          serverTotpNext == generateTotp(hm, dbSecretKey, counter + errorWindow)
          userTotpBuffer == BufferFrom(userTotp)
          prev == Candidate(userTotpBuffer, BufferFrom(serverTotpPrev.code))
          next == Candidate(userTotpBuffer, BufferFrom(serverTotpNext.code))
          gen == {counter - errorWindow, counter + errorWindow}
      IN  IF ~serverTotpPrev.ok \/ ~serverTotpNext.ok
          THEN [outcome |-> "rejected", tse |-> {}, gen |-> gen]
          ELSE IF prev.match
          THEN [outcome |-> "true", tse |-> prev.tse, gen |-> gen]
          ELSE IF next.match
          THEN [outcome |-> "true", tse |-> prev.tse \cup next.tse, gen |-> gen]
          ELSE
            LET rest == WindowLoop(hm, userTotp, dbSecretKey, counter, errorWindow + 1)
            IN  [outcome |-> rest.outcome,
                 tse |-> prev.tse \cup next.tse \cup rest.tse,
                 gen |-> gen \cup rest.gen]

\* verifySecretKey without its length test: timingSafeEqual is handed whatever
\* the two decodes produced, and its RangeError is caught
SecretKeyBodyNoLengthCheck(userSecretKey, dbSecretKey) ==
    LET userSecretKeyBuffer == BufferFromBase64(userSecretKey)
        dbSecretKeyBuffer == BufferFromBase64(dbSecretKey)
    IN  [outcome |-> IF Len(userSecretKeyBuffer) = Len(dbSecretKeyBuffer)
                        /\ TimingSafeEqual(userSecretKeyBuffer, dbSecretKeyBuffer)
                     THEN "true" ELSE "false",
         tse |-> {<<userSecretKeyBuffer, dbSecretKeyBuffer>>}]

\* the body of verifySecretKey; a throw inside the try block is caught and
\* becomes false
SecretKeyBody(userSecretKey, dbSecretKey) ==
    LET userSecretKeyBuffer == BufferFromBase64(userSecretKey)
        dbSecretKeyBuffer == BufferFromBase64(dbSecretKey)
    IN  IF Len(userSecretKeyBuffer) # Len(dbSecretKeyBuffer)
        THEN [outcome |-> "false", tse |-> {}]
        ELSE [outcome |-> IF TimingSafeEqual(userSecretKeyBuffer, dbSecretKeyBuffer)
                          THEN "true" ELSE "false",
              tse |-> {<<userSecretKeyBuffer, dbSecretKeyBuffer>>}]

(***************************************************************************)
(* Inputs                                                                  *)
(***************************************************************************)

\* a digest whose last byte is `last` and whose four bytes at the offset that
\* byte selects are b
MkDigest(last, b) ==
    LET offset == last % 16
    IN  [i \in 1..DigestLen |->
            IF i = DigestLen THEN last
            ELSE IF i - offset \in 1..4 THEN b[i - offset]
            ELSE 170]

\* digests the hash primitive returns to a verifyTotp call
HmacDigests == {MkDigest(0, <<0, 0, 0, 1>>), MkDigest(255, <<255, 255, 255, 255>>)}

\* the points at which a call with this key can evaluate the primitive
HmacPoints(key) ==
    {<<key, CounterBuffer(NumberOf(k))>> :
        k \in (0 - (window + 1))..(MaxCounter + window + 1)}

\* encoded server secrets over 'B' (base32) and '!' (not base32)
SecretInputs == SeqsUpTo({66, 33}, MaxSecretLen)

\* what a user may type: a code, a code with its first digit missing, and
\* strings that are no code: empty, too long, six characters in seven bytes
UserTotpInputs ==
    {HotpCode(d) : d \in HmacDigests}
    \cup {Tail(HotpCode(d)) : d \in HmacDigests}
    \cup {<<>>, <<49, 50, 51, 52, 53, 54>>, <<49, 50, 51, 52, 53, 54, 55>>,
          <<48, 48, 48, 48, 48, 233>>}

\* base64 strings: 'A', 'Q', '!' (not base64) and '='
RawInputs == SeqsUpTo({65, 81, 33, PadChar}, MaxRawLen)

\* generateHotp's inputs: counters across the 64-bit range and digests across
\* the truncation's cases
CounterSamples == [1..4 -> {0, 1, 256, 32768, 65535}]

DigestSamples == {MkDigest(last, b) : last \in {0, 10, 255}, b \in [1..4 -> {0, 1, 255}]}

KeySamples == {<<>>, <<0>>, <<8, 66>>}

(***************************************************************************)
(* State machine                                                           *)
(***************************************************************************)

Idle ==
    /\ op = "none"
    /\ userIn = <<>>
    /\ dbIn = <<>>
    /\ hmac = <<>>
    /\ startNow = 0
    /\ currentCounter = 0
    /\ result = "pending"
    /\ tseCalls = {}
    /\ clockReads = 0
    /\ generated = {}

HotpIdle ==
    /\ hotpCounter = <<0, 0, 0, 0>>
    /\ hotpDigest = <<>>
    /\ hotpBuffer = <<>>
    /\ hotpCode = <<>>

Init ==
    /\ now = 0
    /\ pc = "idle"
    /\ Idle
    /\ HotpIdle

\* the wall clock advances, whatever the program is doing
Tick ==
    /\ now + TickMs <= MaxTick * TickMs
    /\ now' = now + TickMs
    /\ UNCHANGED <<pc, callVars, hotpVars>>

\* verifyTotp is entered: the input is destructured and the clock is read.
\* createHmac is a function of key and message that the program does not
\* control: the call meets an arbitrary one, fixed until it returns, given here
\* on every message a call with this key can reach.
CallTotp ==
    /\ pc = "idle"
    /\ \E userTotp \in UserTotpInputs, dbSecretKey \in SecretInputs :
         \E hm \in [HmacPoints(customBase32Decode(dbSecretKey).bytes) -> HmacDigests] :
            /\ userIn' = userTotp
            /\ dbIn' = dbSecretKey
            /\ hmac' = hm
    /\ pc' = "totpCurrent"
    /\ op' = "totp"
    /\ startNow' = now
    /\ currentCounter' = now \div totp_period
    /\ clockReads' = 1
    /\ result' = "pending"
    /\ tseCalls' = {}
    /\ generated' = {}
    /\ UNCHANGED <<now, hotpVars>>

\* the current code is generated and compared
TotpCheckCurrent ==
    /\ pc = "totpCurrent"
    /\ LET r == CheckCurrent(hmac, userIn, dbIn, currentCounter)
       IN  /\ result' = r.outcome
           /\ tseCalls' = tseCalls \cup r.tse
           /\ generated' = generated \cup r.gen
           /\ pc' = IF r.outcome = "continue" THEN "totpWindow" ELSE "done"
    /\ UNCHANGED <<now, op, userIn, dbIn, hmac, startNow, currentCounter,
                   clockReads, hotpVars>>

\* the loop deriving its counters from a fresh clock reading
TotpCheckWindowRereadsClock ==
    /\ pc = "totpWindow"
    /\ LET r == WindowLoop(hmac, userIn, dbIn, now \div totp_period, 1)
       IN  /\ result' = r.outcome
           /\ tseCalls' = tseCalls \cup r.tse
           /\ generated' = generated \cup r.gen
    /\ clockReads' = clockReads + 1
    /\ pc' = "done"
    /\ UNCHANGED <<now, op, userIn, dbIn, hmac, startNow, currentCounter, hotpVars>>

\* the previous and next codes are generated and compared
TotpCheckWindow ==
    /\ pc = "totpWindow"
    /\ LET r == WindowLoop(hmac, userIn, dbIn, currentCounter, 1)
       IN  /\ result' = r.outcome
           /\ tseCalls' = tseCalls \cup r.tse
           /\ generated' = generated \cup r.gen
    /\ pc' = "done"
    /\ UNCHANGED <<now, op, userIn, dbIn, hmac, startNow, currentCounter,
                   clockReads, hotpVars>>

\* verifySecretKey, from call to return
VerifySecretKey ==
    /\ pc = "idle"
    /\ \E userSecretKey \in RawInputs, dbSecretKey \in RawInputs :
         LET r == SecretKeyBody(userSecretKey, dbSecretKey)
         IN  /\ result' = r.outcome
             /\ tseCalls' = r.tse
             /\ userIn' = userSecretKey
             /\ dbIn' = dbSecretKey
    /\ pc' = "done"
    /\ op' = "raw"
    /\ UNCHANGED <<now, hmac, startNow, currentCounter, clockReads, generated, hotpVars>>

\* the caller takes the settled promise; nothing of the call remains
Return ==
    /\ pc = "done"
    /\ pc' = "idle"
    /\ op' = "none"
    /\ userIn' = <<>>
    /\ dbIn' = <<>>
    /\ hmac' = <<>>
    /\ startNow' = 0
    /\ currentCounter' = 0
    /\ result' = "pending"
    /\ tseCalls' = {}
    /\ clockReads' = 0
    /\ generated' = {}
    /\ UNCHANGED <<now, hotpVars>>

Next ==
    \/ Tick
    \/ CallTotp
    \/ TotpCheckCurrent
    \/ TotpCheckWindow
    \/ VerifySecretKey
    \/ Return

Spec == Init /\ [][Next]_vars

(***************************************************************************)
(* generateHotp on its own: inputs drawn by InitHotp, applied by           *)
(* GenerateHotp                                                            *)
(***************************************************************************)

InitHotp ==
    /\ now = 0
    /\ pc = "hotp"
    /\ Idle
    /\ hotpCounter \in CounterSamples
    /\ hotpDigest \in DigestSamples
    /\ hotpBuffer = <<>>
    /\ hotpCode = <<>>

GenerateHotp(secretKeyBuffer) ==
    /\ pc = "hotp"
    /\ hotpBuffer' = CounterBuffer(hotpCounter)
    /\ hotpCode' = generateHotp(<<secretKeyBuffer, CounterBuffer(hotpCounter)>> :> hotpDigest,
                                secretKeyBuffer, hotpCounter)
    /\ pc' = "hotpDone"
    /\ UNCHANGED <<now, callVars, hotpCounter, hotpDigest>>

NextHotp == \E secretKeyBuffer \in KeySamples : GenerateHotp(secretKeyBuffer)

SpecHotp == InitHotp /\ [][NextHotp]_vars

(***************************************************************************)
(* Properties                                                              *)
(***************************************************************************)

TotpDone == pc = "done" /\ op = "totp"

RawDone == pc = "done" /\ op = "raw"

Decodable == customBase32Decode(dbIn).ok

ServerKey == customBase32Decode(dbIn).bytes

\* the code generated with the server secret for time-step k
CodeFor(k) == generateHotp(hmac, ServerKey, NumberOf(k))

\* the codes of the three accepted time-steps
AcceptedCodes == {CodeFor(currentCounter + k) : k \in {-1, 0, 1}}

UserBytes == BufferFromBase64(userIn)

DbBytes == BufferFromBase64(dbIn)

\* a string with a character that is neither in the base64 alphabet nor '='
MalformedBase64(s) == \E i \in DOMAIN s : ~IsBase64Char(s[i]) /\ s[i] # PadChar

RECURSIVE DecimalValue(_)
DecimalValue(s) ==
    IF s = <<>> THEN 0
    ELSE 10 * DecimalValue(SubSeq(s, 1, Len(s) - 1)) + (s[Len(s)] - 48)

\* the 64-bit counter, most significant byte first
BigEndian8(counter) ==
    <<counter[1] \div 256, counter[1] % 256, counter[2] \div 256, counter[2] % 256,
      counter[3] \div 256, counter[3] % 256, counter[4] \div 256, counter[4] % 256>>

\* verifyTotp's result as a function of its inputs, the hash primitive and one counter
TotpOutcome(hm, userTotp, dbSecretKey, counter) ==
    LET r == CheckCurrent(hm, userTotp, dbSecretKey, counter)
    IN  IF r.outcome = "continue"
        THEN WindowLoop(hm, userTotp, dbSecretKey, counter, 1).outcome
        ELSE r.outcome

\* C1 as stated: with a decodable secret, verifyTotp returns true for the code
\* of time-step current - 1, current or current + 1, and false for the code of
\* time-step current - 2 or current + 2.
C1_DriftWindowExact ==
    TotpDone /\ Decodable =>
        /\ \A k \in {-1, 0, 1} :
              userIn = CodeFor(currentCounter + k) => result = "true"
        /\ \A k \in {-2, 2} :
              userIn = CodeFor(currentCounter + k) => result = "false"

\* C1 amended: with a decodable secret, verifyTotp returns true for the code of
\* time-step current - 1, current or current + 1, and false for the code of
\* time-step current - 2 or current + 2 unless that code is also the code of
\* one of the three accepted time-steps.
C1_DriftWindow ==
    TotpDone /\ Decodable =>
        /\ \A k \in {-1, 0, 1} :
              userIn = CodeFor(currentCounter + k) => result = "true"
        /\ \A k \in {-2, 2} :
              userIn = CodeFor(currentCounter + k) /\ userIn \notin AcceptedCodes
                  => result = "false"

\* C1 witness: the user submitted the next time-step's code, which is not the
\* current one, and was accepted.
C1_Witness ==
    /\ TotpDone /\ Decodable
    /\ userIn = CodeFor(currentCounter + 1)
    /\ userIn # CodeFor(currentCounter)
    /\ userIn # CodeFor(currentCounter - 1)
    /\ result = "true"

\* C2: both entry points fail closed: every call completes with a boolean and no
\* error escapes, also when the server secret is malformed.
C2_FailClosed ==
    pc = "done" =>
        /\ result \in {"true", "false"}
        /\ (op = "totp" /\ ~Decodable => result = "false")

\* C3: verifySecretKey returns true exactly when the decoded bytes of the two
\* inputs are identical, and false whenever either input is malformed base64.
C3_RawIffBytesEqual ==
    RawDone =>
        /\ (result = "true" <=> UserBytes = DbBytes)
        /\ result \in {"true", "false"}
        /\ (MalformedBase64(userIn) \/ MalformedBase64(dbIn) => result = "false")

\* C4: timingSafeEqual is only ever invoked on two buffers of equal length; a
\* submitted value whose length differs from the server-side value yields false
\* with no invocation at all; and a true result always comes out of an invocation
\* on the user's buffer.
C4_EqualLengthCompare ==
    /\ \A p \in tseCalls : Len(p[1]) = Len(p[2])
    /\ (TotpDone /\ Decodable
           /\ Len(BufferFrom(userIn)) # Len(BufferFrom(CodeFor(currentCounter)))
        => result = "false" /\ tseCalls = {})
    /\ (RawDone /\ Len(UserBytes) # Len(DbBytes)
        => result = "false" /\ tseCalls = {})
    /\ (TotpDone /\ result = "true"
        => \E p \in tseCalls : p[1] = BufferFrom(userIn) /\ p[1] = p[2])
    /\ (RawDone /\ result = "true"
        => \E p \in tseCalls : p[1] = UserBytes /\ p[2] = DbBytes /\ p[1] = p[2])

\* C4 witness: a raw-secret call whose decoded lengths differ has returned.
C4_Witness ==
    /\ RawDone
    /\ Len(UserBytes) # Len(DbBytes)
    /\ Len(UserBytes) > 0
    /\ Len(DbBytes) > 0
    /\ result = "false"

\* C5: verifyTotp returns true only on a match: a true result means the submitted
\* string is the code of time-step current - 1, current or current + 1, and with
\* a decodable secret a string that is none of those three codes yields false.
C5_OnlyCandidatesAccepted ==
    TotpDone =>
        /\ (result = "true" => Decodable /\ userIn \in AcceptedCodes)
        /\ (Decodable /\ userIn \notin AcceptedCodes => result = "false")

\* C5 witness: a well-formed code that belongs to time-step current + 2 only
\* was compared against all three candidates and refused.
C5_Witness ==
    /\ TotpDone /\ Decodable
    /\ userIn = CodeFor(currentCounter + 2)
    /\ userIn \notin AcceptedCodes
    /\ generated = {currentCounter - 1, currentCounter, currentCounter + 1}
    /\ result = "false"

\* C6: generateHotp returns exactly totp_length characters, each a decimal digit,
\* and they are the truncated value modulo 10^totp_length padded on the left
\* with '0'.
C6_CodeShape ==
    pc = "hotpDone" =>
        /\ Len(hotpCode) = totp_length
        /\ \A i \in DOMAIN hotpCode : hotpCode[i] \in 48..57
        /\ DecimalValue(hotpCode) = DynamicTruncate(hotpDigest) % Pow10(totp_length)

\* C6 witness: a code whose value has fewer than totp_length digits was padded.
C6_Witness ==
    /\ pc = "hotpDone"
    /\ DynamicTruncate(hotpDigest) % Pow10(totp_length) \in 1..99999
    /\ hotpCode[1] = 48

\* C7: a server secret that decodes to zero bytes is a verification failure on
\* both entry points.
C7_EmptySecretFails ==
    pc = "done" =>
        /\ (op = "totp" /\ Decodable /\ ServerKey = <<>> => result # "true")
        /\ (op = "raw" /\ DbBytes = <<>> => result # "true")

\* C8: the 8-byte message fed to the HMAC is the big-endian encoding of the
\* counter, so no other counter produces the same message.
C8_BigEndianMessage ==
    pc = "hotpDone" =>
        /\ hotpBuffer = BigEndian8(hotpCounter)
        /\ \A other \in CounterSamples :
              other # hotpCounter => CounterBuffer(other) # hotpBuffer

\* C9: the counter is floor(now / period) with the clock and the period in the
\* same unit: with a period of totp_period seconds it grows by one every
\* totp_period seconds.
C9_CounterInPeriodUnits ==
    op = "totp" => currentCounter = (startNow \div MsPerSecond) \div totp_period

====
